---- MODULE Spec2Model ----
(***************************************************************************)
(* Packet Insight core analytics engine (insight/core.py):                 *)
(*   - PacketAnalyzer: initialize_stats, update_stats and the per-layer    *)
(*     rules, driven by the record loop of analyze_pcap;                   *)
(*   - BaselineManager: load_baseline, save_baseline, update_baseline over *)
(*     a file system holding the baseline file and its temporary sibling.  *)
(* Timestamps and byte lengths are natural numbers (ticks, bytes); a raw   *)
(* field of a record is a value that float()/int() either parses or        *)
(* rejects.                                                                *)
(***************************************************************************)
EXTENDS Integers, Sequences, FiniteSets, TLC

\* ------------------------------------------------------------------ bounds
MaxPackets == 3      \* records delivered in one pass
MaxTime    == 2      \* timestamps range over 0..MaxTime
MaxClock   == 1      \* wall-clock readings range over 0..MaxClock
MaxUpdates == 2      \* update_baseline calls in one run
MaxKeys    == 2      \* entries of one update(config_dict)
MaxStream  == 2      \* length of the pass whose snapshot is handed to update_baseline

\* float('inf'): above every timestamp of the model
Inf == 999999

NoField == "<absent>"     \* a field or attribute the record does not carry
NoneVal == "<None>"       \* Python None

\* ------------------------------------------------------- raw field values
Num(n)  == [txt |-> "num", n |-> n]       \* text of a number, e.g. '1500'
Junk    == [txt |-> "junk", n |-> 0]      \* text that is not a number
Missing == [txt |-> "missing", n |-> 0]   \* the attribute does not exist

\* float(x) / int(x) on a raw field: the value, or the exception raised
ParseNumber(v) ==
  CASE v.txt = "num"     -> [exc |-> "none", val |-> v.n]
    [] v.txt = "junk"    -> [exc |-> "ValueError", val |-> 0]
    [] v.txt = "missing" -> [exc |-> "AttributeError", val |-> 0]

Min(a, b) == IF b < a THEN b ELSE a
Max(a, b) == IF b > a THEN b ELSE a

\* defaultdict(int): d[k] += 1
Tally(d, k) == IF k \in DOMAIN d THEN [d EXCEPT ![k] = @ + 1] ELSE d @@ (k :> 1)

\* a table that keeps only its most recent entry
PutEvicting(d, k, v) == (k :> v)

\* dict: d[k] = v
Put(d, k, v) == IF k \in DOMAIN d THEN [d EXCEPT ![k] = v] ELSE d @@ (k :> v)

\* a pop that returns the entry and leaves it in the table
Peek(d, k) == d

\* dict.pop(k)
Pop(d, k) == [x \in (DOMAIN d) \ {k} |-> d[x]]

EmptyDict == [x \in {} |-> 0]

RECURSIVE SumOver(_, _)
SumOver(d, ks) ==
  IF ks = {} THEN 0
  ELSE LET k == CHOOSE x \in ks : TRUE IN d[k] + SumOver(d, ks \ {k})

\* sum(d.values())
SumValues(d) == SumOver(d, DOMAIN d)

\* ---------------------------------------------------------------- records
\* A decoded packet as pyshark exposes it.  layers is the set of names for
\* which `name in packet` holds; each sub-record's fields may be absent.
NoIp   == [src |-> NoField, dst |-> NoField]
NoFlags == {NoField}      \* packet.tcp has no flags field
NoCode  == <<NoField>>    \* packet.http has no response_code field
NoTcp  == [flags |-> NoFlags, analysis_retransmission |-> FALSE, analysis_acks_frame |-> FALSE]
NoUdp  == [srcport |-> NoField, dstport |-> NoField]
NoHttp == [response_code |-> NoCode]
NoTls  == [record_content_type |-> NoField, handshake_type |-> NoField,
           handshake_version |-> NoField, handshake_ciphersuite |-> NoField]
NoDns  == [flags_response |-> NoField, response_time |-> NoField, qry_name |-> NoField,
           qry_type |-> NoField, id |-> NoField]
NoDhcp == [option_dhcp_message_type |-> NoField]

BasePacket ==
  [sniff_timestamp |-> Num(0), length |-> Num(1),
   transport_layer |-> NoneVal, highest_layer |-> "ARP", layers |-> {"ARP"},
   ip |-> NoIp, tcp |-> NoTcp, udp |-> NoUdp, http |-> NoHttp, tls |-> NoTls,
   dns |-> NoDns, has_dhcp |-> FALSE, dhcp |-> NoDhcp]

NoPacket == [BasePacket EXCEPT !.layers = {}, !.highest_layer = NoField]

\* ------------------------------------------------------------------ state
VARIABLES
  stats,        \* the statistics dictionary of the pass
  all_packets,  \* the records of all_packets handed to update_stats so far
  log,          \* the debug messages logged while processing the last record
  escaped,      \* the exception that left update_stats or analyze_pcap, or "none"
  phase,        \* position of analyze_pcap: "start", "processing", "aborted",
                \* "failed" (it raised), "finished" (it returned)
  dir,          \* the directory: path -> inode number, 0 when no such file
  inodes,       \* inode number -> content of the file (a sequence of tokens)
  upd,          \* per process, the update_baseline call it is running
  calls,        \* number of update_baseline calls begun
  config,       \* PacketInsightConfig.config: key -> value
  config_call   \* the last set/update call on it: arguments and outcome

passvars == <<stats, all_packets, log, escaped, phase>>
fsvars   == <<dir, inodes, upd, calls>>
cfgvars  == <<config, config_call>>
vars     == <<stats, all_packets, log, escaped, phase, dir, inodes, upd, calls,
             config, config_call>>

delivered == Len(all_packets)
packet    == IF all_packets = <<>> THEN NoPacket ELSE all_packets[Len(all_packets)]

\* a dictionary whose time range starts from the wall clock
ClockInTimeRange(now) ==
  [packet_count |-> 0, total_bytes |-> 0, start_time |-> now,
   start_timestamp |-> Inf, end_timestamp |-> now,
   retransmissions |-> 0, resets |-> 0, dns_issues |-> 0,
   http_errors |-> EmptyDict, tcp_syn_delays |-> <<>>, udp_jitter |-> <<>>,
   top_talkers |-> EmptyDict, protocols |-> EmptyDict, conversations |-> EmptyDict,
   throughput_samples |-> <<>>, prev_udp_time |-> EmptyDict, malformed_packets |-> 0,
   tls_handshakes |-> 0, tls_versions |-> EmptyDict, tls_cipher_suites |-> EmptyDict,
   tls_alerts |-> 0, expired_certs |-> <<>>, self_signed_certs |-> <<>>,
   dns_queries |-> EmptyDict, dns_response_times |-> <<>>, dns_record_types |-> EmptyDict,
   pending_dns_queries |-> EmptyDict,
   dhcp_servers |-> EmptyDict, dhcp_discover |-> 0, dhcp_offer |-> 0,
   dhcp_request |-> 0, dhcp_ack |-> 0, dhcp_nak |-> 0]

initialize_stats(now) ==
  [packet_count |-> 0, total_bytes |-> 0, start_time |-> now,
   start_timestamp |-> Inf, end_timestamp |-> 0,
   retransmissions |-> 0, resets |-> 0, dns_issues |-> 0,
   http_errors |-> EmptyDict, tcp_syn_delays |-> <<>>, udp_jitter |-> <<>>,
   top_talkers |-> EmptyDict, protocols |-> EmptyDict, conversations |-> EmptyDict,
   throughput_samples |-> <<>>, prev_udp_time |-> EmptyDict, malformed_packets |-> 0,
   tls_handshakes |-> 0, tls_versions |-> EmptyDict, tls_cipher_suites |-> EmptyDict,
   tls_alerts |-> 0, expired_certs |-> <<>>, self_signed_certs |-> <<>>,
   dns_queries |-> EmptyDict, dns_response_times |-> <<>>, dns_record_types |-> EmptyDict,
   pending_dns_queries |-> EmptyDict,
   dhcp_servers |-> EmptyDict, dhcp_discover |-> 0, dhcp_offer |-> 0,
   dhcp_request |-> 0, dhcp_ack |-> 0, dhcp_nak |-> 0]

\* ------------------------------------------------------ evaluation results
\* The outcome of running a block of code on the dictionary: the dictionary
\* as mutated so far, the exception in flight ("none" when the block ran to
\* its end) and the messages logged.
Ok(st, lg)         == [st |-> st, exc |-> "none", log |-> lg]
Raise(st, lg, exc) == [st |-> st, exc |-> exc, log |-> lg]

\* obj.field where the field may be absent
Absent(v) == v = NoField

\* `except AttributeError` of the per-layer methods
CatchAttributeError(r, msg) ==
  IF r.exc = "AttributeError" THEN Ok(r.st, Append(r.log, msg)) ELSE r

\* ---------------------------------------------------- the per-layer rules
\* Each rule takes the dictionary st, the messages logged so far lg, the
\* record p (and the record's timestamp t) and yields an evaluation result.

_analyze_ip_layer(st, lg, p, t) ==
  CatchAttributeError(
    IF Absent(p.ip.src) \/ Absent(p.ip.dst)
    THEN Raise(st, lg, "AttributeError")
    ELSE Ok([st EXCEPT !.top_talkers = Tally(Tally(@, p.ip.src), p.ip.dst),
                       !.conversations = Tally(@, <<p.ip.src, p.ip.dst>>)], lg),
    "IP layer analysis error")

\* a TCP rule that counts a retransmission twice
TcpCountsTwice(st, lg, p, t) ==
  CatchAttributeError(
    LET s1 == IF p.tcp.analysis_retransmission
              THEN [st EXCEPT !.retransmissions = @ + 2] ELSE st
    IN IF p.tcp.flags = NoFlags
       THEN Raise(s1, lg, "AttributeError")
       ELSE LET s2 == IF "RST" \in p.tcp.flags
                      THEN [s1 EXCEPT !.resets = @ + 1] ELSE s1
                s3 == IF "SYN" \in p.tcp.flags /\ ~p.tcp.analysis_acks_frame
                      THEN [s2 EXCEPT !.tcp_syn_delays = Append(@, t)] ELSE s2
            IN Ok(s3, lg),
    "TCP layer analysis error")

_analyze_tcp_layer(st, lg, p, t) ==
  CatchAttributeError(
    LET s1 == IF p.tcp.analysis_retransmission
              THEN [st EXCEPT !.retransmissions = @ + 1] ELSE st
    IN IF p.tcp.flags = NoFlags
       THEN Raise(s1, lg, "AttributeError")
       ELSE LET s2 == IF "RST" \in p.tcp.flags
                      THEN [s1 EXCEPT !.resets = @ + 1] ELSE s1
                s3 == IF "SYN" \in p.tcp.flags /\ ~p.tcp.analysis_acks_frame
                      THEN [s2 EXCEPT !.tcp_syn_delays = Append(@, t)] ELSE s2
            IN Ok(s3, lg),
    "TCP layer analysis error")

\* a UDP rule that takes 0 for the last-seen time of a flow it has not seen
UdpSampleAlways(st, lg, p, t) ==
  CatchAttributeError(
    IF "IP" \in p.layers
    THEN IF Absent(p.ip.src) \/ Absent(p.ip.dst) \/ Absent(p.udp.srcport) \/ Absent(p.udp.dstport)
         THEN Raise(st, lg, "AttributeError")
         ELSE LET flow_key == <<p.ip.src, p.ip.dst, p.udp.srcport, p.udp.dstport>>
                  last == IF flow_key \in DOMAIN st.prev_udp_time
                          THEN st.prev_udp_time[flow_key] ELSE 0
                  s1 == [st EXCEPT !.udp_jitter = Append(@, t - last)]
              IN Ok([s1 EXCEPT !.prev_udp_time = Put(@, flow_key, t)], lg)
    ELSE Ok(st, lg),
    "UDP layer analysis error")

_analyze_udp_layer(st, lg, p, t) ==
  CatchAttributeError(
    IF "IP" \in p.layers
    THEN IF Absent(p.ip.src) \/ Absent(p.ip.dst) \/ Absent(p.udp.srcport) \/ Absent(p.udp.dstport)
         THEN Raise(st, lg, "AttributeError")
         ELSE LET flow_key == <<p.ip.src, p.ip.dst, p.udp.srcport, p.udp.dstport>>
                  s1 == IF flow_key \in DOMAIN st.prev_udp_time
                        THEN [st EXCEPT !.udp_jitter = Append(@, t - st.prev_udp_time[flow_key])]
                        ELSE st
              IN Ok([s1 EXCEPT !.prev_udp_time = Put(@, flow_key, t)], lg)
    ELSE Ok(st, lg),
    "UDP layer analysis error")

\* code.startswith(('4', '5')) on the text of the response code
StartsWith4or5(code) == Len(code) > 0 /\ code[1] \in {"4", "5"}

_analyze_http_layer(st, lg, p) ==
  CatchAttributeError(
    IF p.http.response_code /= NoCode /\ StartsWith4or5(p.http.response_code)
    THEN Ok([st EXCEPT !.http_errors = Tally(@, p.http.response_code)], lg)
    ELSE Ok(st, lg),
    "HTTP layer analysis error")

_analyze_tls_layer(st, lg, p) ==
  CatchAttributeError(
    LET s1 == IF ~Absent(p.tls.record_content_type) /\ p.tls.record_content_type = "22"
              THEN [st EXCEPT !.tls_handshakes = @ + 1] ELSE st
        s2 == IF ~Absent(p.tls.handshake_type) /\ p.tls.handshake_type = "2"
              THEN LET v == IF ~Absent(p.tls.handshake_version)
                            THEN [s1 EXCEPT !.tls_versions = Tally(@, p.tls.handshake_version)]
                            ELSE s1
                   IN IF ~Absent(p.tls.handshake_ciphersuite)
                      THEN [v EXCEPT !.tls_cipher_suites = Tally(@, p.tls.handshake_ciphersuite)]
                      ELSE v
              ELSE s1
        s3 == IF ~Absent(p.tls.record_content_type) /\ p.tls.record_content_type = "21"
              THEN [s2 EXCEPT !.tls_alerts = @ + 1] ELSE s2
    IN Ok(s3, lg),
    "TLS layer analysis error")

_analyze_dns_layer(st, lg, p, t) ==
  CatchAttributeError(
    IF Absent(p.dns.flags_response)
    THEN Raise(st, lg, "AttributeError")
    ELSE
      LET s1 == IF p.dns.flags_response = "0" /\ Absent(p.dns.response_time)
                THEN [st EXCEPT !.dns_issues = @ + 1] ELSE st
          s2 == IF ~Absent(p.dns.qry_name)
                THEN [s1 EXCEPT !.dns_queries = Tally(@, p.dns.qry_name)] ELSE s1
      IN IF ~Absent(p.dns.qry_name) /\ Absent(p.dns.qry_type)
         THEN Raise(s2, lg, "AttributeError")
         ELSE
           LET s3 == IF ~Absent(p.dns.qry_name)
                     THEN [s2 EXCEPT !.dns_record_types = Tally(@, p.dns.qry_type)] ELSE s2
           IN IF p.dns.flags_response = "0"
              THEN IF Absent(p.dns.id)
                   THEN Raise(s3, lg, "AttributeError")
                   ELSE Ok([s3 EXCEPT !.pending_dns_queries = Put(@, p.dns.id, t)], lg)
              ELSE IF p.dns.flags_response = "1"
              THEN IF Absent(p.dns.id)
                   THEN Raise(s3, lg, "AttributeError")
                   ELSE IF p.dns.id \in DOMAIN s3.pending_dns_queries
                        THEN Ok([s3 EXCEPT
                                   !.dns_response_times =
                                       Append(@, t - s3.pending_dns_queries[p.dns.id]),
                                   !.pending_dns_queries = Pop(@, p.dns.id)], lg)
                        ELSE Ok(s3, lg)
              ELSE Ok(s3, lg),
    "DNS layer analysis error")

_analyze_dhcp_layer(st, lg, p) ==
  CatchAttributeError(
    IF p.has_dhcp /\ ~Absent(p.dhcp.option_dhcp_message_type)
    THEN LET dhcp_type == p.dhcp.option_dhcp_message_type
         IN CASE dhcp_type = "1" -> Ok([st EXCEPT !.dhcp_discover = @ + 1], lg)
              [] dhcp_type = "2" ->
                   LET s1 == [st EXCEPT !.dhcp_offer = @ + 1]
                   IN IF "IP" \in p.layers
                      THEN IF Absent(p.ip.src)
                           THEN Raise(s1, lg, "AttributeError")
                           ELSE Ok([s1 EXCEPT !.dhcp_servers = Tally(@, p.ip.src)], lg)
                      ELSE Ok(s1, lg)
              [] dhcp_type = "3" -> Ok([st EXCEPT !.dhcp_request = @ + 1], lg)
              [] dhcp_type = "5" -> Ok([st EXCEPT !.dhcp_ack = @ + 1], lg)
              [] dhcp_type = "6" -> Ok([st EXCEPT !.dhcp_nak = @ + 1], lg)
              [] OTHER -> Ok(st, lg)
    ELSE Ok(st, lg),
    "DHCP layer analysis error")

\* ------------------------------------------------------------ update_stats
\* Run rule F on the result r unless an exception is already in flight.
AndThen(r, F(_, _)) == IF r.exc = "none" THEN F(r.st, r.log) ELSE r

\* lines 84-99: the count, the time range, the size and the protocol tally
Prologue(st, p) ==
  LET s1 == [st EXCEPT !.packet_count = @ + 1]
      ts == ParseNumber(p.sniff_timestamp)
  IN IF ts.exc /= "none" THEN Raise(s1, <<>>, ts.exc)
     ELSE
       LET current_time == ts.val
           s2 == [s1 EXCEPT !.start_timestamp = Min(@, current_time),
                            !.end_timestamp = Max(@, current_time)]
           sz == ParseNumber(p.length)
       IN IF p.length /= Missing /\ sz.exc /= "none" THEN Raise(s2, <<>>, sz.exc)
          ELSE
            LET s3 == IF p.length /= Missing
                      THEN [s2 EXCEPT !.total_bytes = @ + sz.val,
                                      !.throughput_samples = Append(@, <<current_time, sz.val>>)]
                      ELSE s2
                protocol == IF p.transport_layer /= NoneVal
                            THEN p.transport_layer ELSE p.highest_layer
            IN Ok([s3 EXCEPT !.protocols = Tally(@, protocol)], <<>>)

\* lines 101-124: the layer rules, in the order of the code
Layers(r0, p) ==
  LET t  == ParseNumber(p.sniff_timestamp).val
      Ip(st, lg)   == IF "IP" \in p.layers THEN _analyze_ip_layer(st, lg, p, t) ELSE Ok(st, lg)
      Tcp(st, lg)  == IF "TCP" \in p.layers THEN _analyze_tcp_layer(st, lg, p, t) ELSE Ok(st, lg)
      Udp(st, lg)  == IF "UDP" \in p.layers THEN _analyze_udp_layer(st, lg, p, t) ELSE Ok(st, lg)
      Http(st, lg) == IF "HTTP" \in p.layers THEN _analyze_http_layer(st, lg, p) ELSE Ok(st, lg)
      Tls(st, lg)  == IF "TLS" \in p.layers THEN _analyze_tls_layer(st, lg, p) ELSE Ok(st, lg)
      Dns(st, lg)  == IF "DNS" \in p.layers THEN _analyze_dns_layer(st, lg, p, t) ELSE Ok(st, lg)
      Dhcp(st, lg) == IF "DHCP" \in p.layers \/ "BOOTP" \in p.layers
                      THEN _analyze_dhcp_layer(st, lg, p) ELSE Ok(st, lg)
  IN AndThen(AndThen(AndThen(AndThen(AndThen(AndThen(AndThen(r0, Ip), Tcp), Udp), Http), Tls), Dns), Dhcp)

\* a handler as narrow as the per-layer ones, where the code catches Exception
CatchOnlyAttributeError(r) ==
  IF r.exc = "AttributeError"
  THEN Ok([r.st EXCEPT !.malformed_packets = @ + 1], Append(r.log, "Error processing packet"))
  ELSE r

\* `except Exception` of update_stats: every exception kind of the model is
\* an Exception
CatchException(r) ==
  IF r.exc /= "none"
  THEN Ok([r.st EXCEPT !.malformed_packets = @ + 1], Append(r.log, "Error processing packet"))
  ELSE r

update_stats(st, p) == CatchException(Layers(Prologue(st, p), p))

\* ------------------------------------------------------------ baseline file
\* A path is its stem and its suffix; Path.with_suffix replaces the suffix.
baseline_path == [stem |-> "network_baselines", suffix |-> ".json"]

\* a temporary name that is the destination itself
SamePath(path, suffix) == path

with_suffix(path, suffix) == [path EXCEPT !.suffix = suffix]

temp_path == with_suffix(baseline_path, ".tmp")
Paths == {baseline_path, temp_path}

\* A number of the baseline: the quotient n/d in lowest terms.
RECURSIVE Gcd(_, _)
Gcd(a, b) == IF b = 0 THEN a ELSE Gcd(b, a % b)
Abs(x) == IF x < 0 THEN -x ELSE x
Rat(n, d) == LET g == Gcd(Abs(n), d) IN [n |-> n \div g, d |-> d \div g]

\* integer division in place of the float quotient
FloorDivide(numerator, denominator) ==
  IF denominator = 0 THEN [n |-> 0, d |-> 1] ELSE [n |-> numerator \div denominator, d |-> 1]

safe_divide(numerator, denominator) ==
  IF denominator = 0 THEN Rat(0, 1) ELSE Rat(numerator, denominator)

RECURSIVE SeqSum(_)
SeqSum(q) == IF q = <<>> THEN 0 ELSE q[1] + SeqSum(Tail(q))

\* JSON values the file may hold: an object (key -> bucket) or an array.
Object(members) == [type |-> "object", members |-> members]
Array           == [type |-> "array", members |-> EmptyDict]
NoneValue       == [type |-> "None", members |-> EmptyDict]

\* The text of a file is a sequence of tokens.
Tok(t, k, v) == [tok |-> t, key |-> k, val |-> v]
OpenBrace  == Tok("{", "", EmptyDict)
CloseBrace == Tok("}", "", EmptyDict)
ArrayText  == Tok("[1]", "", EmptyDict)
NullText   == Tok("null", "", EmptyDict)
Garbage    == Tok("not json", "", EmptyDict)
NoFile     == <<Tok("<no file>", "", EmptyDict)>>

RECURSIVE MemberTokens(_, _)
MemberTokens(f, ks) ==
  IF ks = {} THEN <<>>
  ELSE LET k == CHOOSE x \in ks : TRUE
       IN <<Tok("member", k, f[k])>> \o MemberTokens(f, ks \ {k})

\* a dump that leaves the closing brace of an object out
DumpUnclosed(v) ==
  IF v.type = "array" THEN <<ArrayText>>
  ELSE IF v.type = "None" THEN <<NullText>>
  ELSE <<OpenBrace>> \o MemberTokens(v.members, DOMAIN v.members)

\* json.dump(value, f, indent=2): the chunks written, in order
Serialize(v) ==
  IF v.type = "array" THEN <<ArrayText>>
  ELSE IF v.type = "None" THEN <<NullText>>
  ELSE <<OpenBrace>> \o MemberTokens(v.members, DOMAIN v.members) \o <<CloseBrace>>

\* json.load(f): the value, or JSONDecodeError
Parse(text) ==
  IF text = <<ArrayText>> THEN [exc |-> "none", val |-> Array]
  ELSE IF text = <<NullText>> THEN [exc |-> "none", val |-> NoneValue]
  ELSE IF /\ Len(text) >= 2
          /\ text[1] = OpenBrace /\ text[Len(text)] = CloseBrace
          /\ \A i \in 2 .. (Len(text) - 1) : text[i].tok = "member"
  THEN LET keys == {text[i].key : i \in 2 .. (Len(text) - 1)}
           last(k) == CHOOSE i \in 2 .. (Len(text) - 1) :
                        /\ text[i].key = k
                        /\ \A j \in 2 .. (Len(text) - 1) : text[j].key = k => j <= i
       IN [exc |-> "none", val |-> Object([k \in keys |-> text[last(k)].val])]
  ELSE [exc |-> "JSONDecodeError", val |-> NoneValue]

\* content of the file at a path, NoFile when there is none
Content(d, ino, path) == IF d[path] = 0 THEN NoFile ELSE ino[d[path]]

\* a load that takes an unreadable or unparseable file for a missing one
LenientLoad(d, ino, ioerror) == [exc |-> "none", val |-> NoneValue]

\* load_baseline (lines 320-328): None when the file does not exist, the
\* value json.load returns when it does, BaselineError when open or json.load
\* fails (ioerror: the open or the read fails)
load_baseline(d, ino, ioerror) ==
  IF d[baseline_path] = 0 THEN [exc |-> "none", val |-> NoneValue]
  ELSE IF ioerror THEN [exc |-> "BaselineError: IOError loading", val |-> NoneValue]
  ELSE LET parsed == Parse(Content(d, ino, baseline_path))
       IN IF parsed.exc /= "none"
          THEN [exc |-> "BaselineError: JSONDecodeError loading", val |-> NoneValue]
          ELSE parsed

\* A day type that counts Friday as weekend.
WeekendFromFriday(weekday) == IF weekday < 4 THEN "workday" ELSE "weekend"

\* get_baseline_type: datetime.now().weekday() is 0 (Monday) .. 6 (Sunday)
get_baseline_type(weekday) == IF weekday < 5 THEN "workday" ELSE "weekend"

\* lines 357-369: the five metrics of the bucket
Metrics(st) ==
  [k \in {"tcp_retransmission_rate", "tcp_resets", "avg_tcp_handshake_delay",
          "avg_udp_jitter", "http_error_rate"} |->
     CASE k = "tcp_retransmission_rate" -> safe_divide(st.retransmissions, st.packet_count)
       [] k = "tcp_resets" -> Rat(st.resets, 1)
       [] k = "avg_tcp_handshake_delay" ->
            IF st.tcp_syn_delays /= <<>>
            THEN safe_divide(SeqSum(st.tcp_syn_delays), Len(st.tcp_syn_delays))
            ELSE Rat(0, 1)
       [] k = "avg_udp_jitter" ->
            IF st.udp_jitter /= <<>>
            THEN safe_divide(SeqSum(st.udp_jitter), Len(st.udp_jitter))
            ELSE Rat(0, 1)
       [] k = "http_error_rate" -> safe_divide(SumValues(st.http_errors), st.packet_count)]

\* an update that starts from the empty record whatever the file holds
AlwaysDefault(v) == Object([k \in {"workday", "weekend"} |-> EmptyDict])

\* `load_baseline() or {"workday": {}, "weekend": {}}`: None, {} are falsy
OrDefault(v) ==
  IF v.type = "None" \/ (v.type = "object" /\ DOMAIN v.members = {})
  THEN Object([k \in {"workday", "weekend"} |-> EmptyDict])
  ELSE v

\* an update that merges the new metrics into the fields the bucket had
MergeBucket(baseline_data, baseline_type, metrics) ==
  LET old == IF baseline_type \in DOMAIN baseline_data.members
             THEN baseline_data.members[baseline_type] ELSE EmptyDict
  IN Object(Put(baseline_data.members, baseline_type,
                [k \in DOMAIN old \cup DOMAIN metrics |->
                   IF k \in DOMAIN metrics THEN metrics[k] ELSE old[k]]))

\* line 357: baseline_data[baseline_type] = {...}
AssignBucket(baseline_data, baseline_type, metrics) ==
  Object(Put(baseline_data.members, baseline_type, metrics))

\* one update_baseline call: where it stands, its locals and its outcome
IdleCall ==
  [pc |-> "idle", baseline_type |-> "", baseline_data |-> NoneValue,
   fd |-> 0, pos |-> 0, result |-> "none", error |-> "none", before |-> NoFile,
   raised |-> "none"]

\* ------------------------------------------------------ PacketInsightConfig
\* Configuration values carry their Python type. A float is held in
\* hundredths (n = 5 is 0.05), a bool as n = 1 or 0, a string in s.
PyFloat(h)  == [type |-> "float", n |-> h, s |-> ""]
PyInt(i)    == [type |-> "int", n |-> i, s |-> ""]
PyBool(b)   == [type |-> "bool", n |-> IF b THEN 1 ELSE 0, s |-> ""]
PyStr(x)    == [type |-> "str", n |-> 0, s |-> x]
PyNone    == [type |-> "NoneType", n |-> 0, s |-> ""]

\* isinstance(value, t): bool is a subclass of int
isinstance(value, t) == value.type = t \/ (t = "int" /\ value.type = "bool")

\* DEFAULT_CONFIG (lines 24-60) and VALIDATION_SCHEMA (lines 63-83), for one
\* key of each schema kind and one key the schema does not mention.
DEFAULT_CONFIG ==
  [k \in {"retransmission_threshold", "worker_threads", "log_level",
          "enable_debug_mode", "log_file"} |->
     CASE k = "retransmission_threshold" -> PyFloat(5)
       [] k = "worker_threads"           -> PyInt(4)
       [] k = "log_level"                -> PyStr("INFO")
       [] k = "enable_debug_mode"        -> PyBool(FALSE)
       [] k = "log_file"                 -> PyNone]

VALIDATION_SCHEMA ==
  [k \in {"retransmission_threshold", "worker_threads", "log_level",
          "enable_debug_mode"} |->
     CASE k = "retransmission_threshold" -> [type |-> "float", min |-> 0, max |-> 100]
       [] k = "worker_threads"           -> [type |-> "int", min |-> 1, max |-> 32]
       [] k = "log_level"                ->
            [type |-> "str", choices |-> {"DEBUG", "INFO", "WARNING", "ERROR"}]
       [] k = "enable_debug_mode"        -> [type |-> "bool"]]

\* _validate_value (lines 204-221): the error found, "None" when there is none
_validate_value(key, value, schema) ==
  IF ~isinstance(value, schema.type) THEN "expected type"
  ELSE IF "min" \in DOMAIN schema /\ value.n < schema.min THEN "below minimum"
  ELSE IF "max" \in DOMAIN schema /\ value.n > schema.max THEN "above maximum"
  ELSE IF "choices" \in DOMAIN schema /\ value.s \notin schema.choices
  THEN "not in allowed choices"
  ELSE "None"

\* set (lines 227-234): validate, then store
set(cfg, key, value) ==
  LET error == IF key \in DOMAIN VALIDATION_SCHEMA
               THEN _validate_value(key, value, VALIDATION_SCHEMA[key])
               ELSE "None"
  IN IF error /= "None"
     THEN [config |-> cfg, raised |-> "ConfigurationError"]
     ELSE [config |-> Put(cfg, key, value), raised |-> "none"]

\* dict.update(d)
DictUpdate(cfg, d) ==
  [k \in DOMAIN cfg \cup DOMAIN d |-> IF k \in DOMAIN d THEN d[k] ELSE cfg[k]]

\* The keys of config_dict whose value fails validation (lines 240-244).
Errors(config_dict) ==
  {key \in DOMAIN config_dict :
     /\ key \in DOMAIN VALIDATION_SCHEMA
     /\ _validate_value(key, config_dict[key], VALIDATION_SCHEMA[key]) /= "None"}

\* an update that stores the valid entries before it reports the invalid ones
UpdateKeyByKey(cfg, config_dict) ==
  LET errors == Errors(config_dict)
      valid  == [k \in DOMAIN config_dict \ errors |-> config_dict[k]]
  IN [config |-> DictUpdate(cfg, valid),
      raised |-> IF errors /= {} THEN "ConfigurationError" ELSE "none"]

\* update (lines 236-249): validate every entry, then store them all
update(cfg, config_dict) ==
  IF Errors(config_dict) /= {}
  THEN [config |-> cfg, raised |-> "ConfigurationError"]
  ELSE [config |-> DictUpdate(cfg, config_dict), raised |-> "none"]

NoCall == [op |-> "none", arg |-> EmptyDict, raised |-> "none", pc |-> "none"]

\* __init__ (lines 85-88) without a config_dict
InitConfig == config = DEFAULT_CONFIG /\ config_call = NoCall

\* ------------------------------------------------------- record universes
Times == 0 .. MaxTime
Stamps == {Num(t) : t \in Times}

Plain(ts, len) == [BasePacket EXCEPT !.sniff_timestamp = ts, !.length = len]

UdpPacket(ts, len, ip, udp) ==
  [BasePacket EXCEPT !.sniff_timestamp = ts, !.length = len,
                     !.transport_layer = "UDP", !.highest_layer = "UDP",
                     !.layers = {"IP", "UDP"}, !.ip = ip, !.udp = udp]

TcpPacket(ts, len, ip, tcp) ==
  [BasePacket EXCEPT !.sniff_timestamp = ts, !.length = len,
                     !.transport_layer = "TCP", !.highest_layer = "TCP",
                     !.layers = {"IP", "TCP"}, !.ip = ip, !.tcp = tcp]

DnsPacket(ts, len, dns) ==
  [UdpPacket(ts, len, [src |-> "A", dst |-> "B"], [srcport |-> "5353", dstport |-> "53"])
     EXCEPT !.highest_layer = "DNS", !.layers = {"IP", "UDP", "DNS"}, !.dns = dns]

Query(id)    == [NoDns EXCEPT !.flags_response = "0", !.id = id]
Response(id) == [NoDns EXCEPT !.flags_response = "1", !.id = id, !.response_time = "0.1"]

AB == [src |-> "A", dst |-> "B"]
BA == [src |-> "B", dst |-> "A"]
Ports == [srcport |-> "1000", dstport |-> "2000"]

\* Records of every kind, well formed and not: unparseable timestamp or
\* length, missing length, sub-records with missing fields.
FaultPackets ==
     {Plain(ts, len) : ts \in Stamps \cup {Junk}, len \in {Num(1), Missing, Junk}}
  \cup {UdpPacket(ts, Num(2), AB, Ports) : ts \in Stamps}
  \cup {UdpPacket(Num(0), Junk, AB, Ports),
        UdpPacket(Num(1), Num(2), [src |-> NoField, dst |-> "B"], Ports),
        UdpPacket(Num(1), Num(2), AB, [srcport |-> NoField, dstport |-> "2000"]),
        TcpPacket(Num(1), Num(3), BA, [NoTcp EXCEPT !.analysis_retransmission = TRUE]),
        TcpPacket(Num(2), Num(3), BA, [NoTcp EXCEPT !.flags = {"SYN"}]),
        DnsPacket(Num(0), Num(2), [Query("42") EXCEPT !.qry_name = "example.org", !.qry_type = "1"]),
        DnsPacket(Num(1), Num(2), [Query("42") EXCEPT !.qry_name = "example.org"]),
        DnsPacket(Num(1), Junk, Query("42")),
        [DnsPacket(Num(2), Num(2), NoDns) EXCEPT
            !.layers = @ \cup {"DHCP"}, !.has_dhcp = TRUE,
            !.dhcp = [option_dhcp_message_type |-> "1"]],
        [UdpPacket(Num(2), Num(2), [src |-> NoField, dst |-> "B"], Ports) EXCEPT
            !.layers = @ \cup {"DHCP"}, !.has_dhcp = TRUE,
            !.dhcp = [option_dhcp_message_type |-> "2"]]}

\* ----------------------------------------------------------------- actions
Procs == {1, 2}      \* processes that may run update_baseline

Init ==
  /\ \E now \in 0 .. MaxClock : stats = initialize_stats(now)
  /\ all_packets = <<>>
  /\ log = <<>>
  /\ escaped = "none"
  /\ phase = "processing"
  /\ dir = [p \in Paths |-> 0]
  /\ inodes = <<>>
  /\ upd = [self \in Procs |-> IdleCall]
  /\ calls = 0
  /\ InitConfig

\* analyze_pcap, lines 263-264 and 272-273: the loop hands the next record
\* to update_stats; an exception leaving update_stats ends the loop.
Deliver(p) ==
  /\ phase = "processing"
  /\ delivered < MaxPackets
  /\ LET r == update_stats(stats, p)
     IN /\ stats' = r.st
        /\ log' = r.log
        /\ escaped' = r.exc
        /\ phase' = IF r.exc = "none" THEN "processing" ELSE "aborted"
  /\ all_packets' = Append(all_packets, p)
  /\ UNCHANGED <<fsvars, cfgvars>>

ProcessRecord == \E p \in FaultPackets : Deliver(p)

Next == ProcessRecord

Spec == Init /\ [][Next]_vars

\* "_".join(str(item) for item in k), line 301
JoinKey(k) == k[1] \o "_" \o k[2]

\* _cleanup_stats (lines 290-305): deletes the key prev_udp_time and rewrites
\* conversations with its tuple keys joined into strings; every other key of
\* the snapshot, pending_dns_queries included, is left as it is.
_cleanup_stats(st) ==
  LET conversations ==
        [new_key \in {JoinKey(k) : k \in DOMAIN st.conversations} |->
           st.conversations[CHOOSE k \in DOMAIN st.conversations : JoinKey(k) = new_key]]
  IN [key \in DOMAIN st \ {"prev_udp_time"} |->
        IF key = "conversations" THEN conversations ELSE st[key]]

\* analyze_pcap, lines 286-288: the loop is over (the capture held the
\* records delivered so far); the snapshot is cleaned up and returned.
Finalize ==
  /\ phase = "processing"
  /\ phase' = "finished"
  /\ stats' = _cleanup_stats(stats)
  /\ UNCHANGED <<all_packets, log, escaped>>
  /\ UNCHANGED <<fsvars, cfgvars>>

\* Captures that feed both correlation tables, with two faulty records.
FinalizePackets ==
  {UdpPacket(Num(1), Num(2), AB, Ports),
   DnsPacket(Num(0), Num(2), Query("42")),
   DnsPacket(Num(2), Num(2), Response("42")),
   TcpPacket(Num(2), Num(3), BA, [NoTcp EXCEPT !.flags = {"SYN"}]),
   Plain(Num(1), Junk),
   Plain(Junk, Num(1))}

ProcessCaptureRecord == \E p \in FinalizePackets : Deliver(p)

NextFinalize == ProcessCaptureRecord \/ Finalize

SpecFinalize == Init /\ [][NextFinalize]_vars

\* analyze_pcap from its first line. The path may not exist; creating the
\* capture and listing its records (lines 251-261) may raise in the decoder
\* library, with an exception of one of the classes the handlers of lines
\* 266-273 tell apart ("Exception" stands for any class other than the three
\* named ones).
DecoderFaults ==
  {"TSharkCrashException", "FileNotFoundError", "PermissionError", "Exception"}

\* The except clauses of analyze_pcap, lines 266-273.
ExceptClause(e) ==
  IF e \in {"TSharkCrashException", "FileNotFoundError", "PermissionError"}
  THEN "CaptureError"
  ELSE "AnalysisError"

InitCapture ==
  /\ \E now \in 0 .. MaxClock : stats = initialize_stats(now)
  /\ all_packets = <<>>
  /\ log = <<>>
  /\ escaped = "none"
  /\ phase = "start"
  /\ dir = [p \in Paths |-> 0]
  /\ inodes = <<>>
  /\ upd = [self \in Procs |-> IdleCall]
  /\ calls = 0
  /\ InitConfig

\* Lines 243-261: the existence test, then FileCapture and list(cap) inside
\* the try block. `escaped` is the exception that leaves analyze_pcap.
OpenCapture ==
  /\ phase = "start"
  /\ \E exists \in BOOLEAN, e \in DecoderFaults \cup {"none"} :
       LET raised == IF ~exists THEN "CaptureError"
                     ELSE IF e = "none" THEN "none"
                     ELSE ExceptClause(e)
       IN /\ escaped' = raised
          /\ phase' = IF raised = "none" THEN "processing" ELSE "failed"
  /\ UNCHANGED <<stats, all_packets, log>>
  /\ UNCHANGED <<fsvars, cfgvars>>

NextCapture == OpenCapture \/ ProcessCaptureRecord \/ Finalize

SpecCapture == InitCapture /\ [][NextCapture]_vars

\* A pass over TCP, HTTP, DHCP and TLS traffic. The TCP records carry every
\* combination of the retransmission mark, the ack reference and the flags;
\* the HTTP records a 4xx, a 5xx, a 2xx and a 3xx code and no code; the DHCP
\* records every message type, with and without IP. `dhcp` holds the fields
\* of the DHCP sub-record and has_dhcp says whether the record exposes it as
\* packet.dhcp: a record whose layer is named BOOTP exposes it as
\* packet.bootp. One record of each kind has an unparseable length.
TcpFlagSets == {{}, {"SYN"}, {"RST"}, {"SYN", "RST"}, {"SYN", "ACK"}}

HttpPacket(len, code) ==
  [TcpPacket(Num(1), len, BA, [NoTcp EXCEPT !.flags = {"ACK"}]) EXCEPT
     !.layers = @ \cup {"HTTP"}, !.highest_layer = "HTTP",
     !.http = [response_code |-> code]]

HttpCodes == {<<"4", "0", "4">>, <<"5", "0", "0">>, <<"2", "0", "0">>, <<"3", "0", "1">>, NoCode}

DhcpPacket(len, layer, ip, type) ==
  [BasePacket EXCEPT !.sniff_timestamp = Num(1), !.length = len,
                     !.transport_layer = "UDP", !.highest_layer = layer,
                     !.layers = (IF ip = NoIp THEN {"UDP", layer} ELSE {"IP", "UDP", layer}),
                     !.ip = ip, !.udp = [srcport |-> "67", dstport |-> "68"],
                     !.has_dhcp = (layer = "DHCP"),
                     !.dhcp = [option_dhcp_message_type |-> type]]

DhcpTypes == {"1", "2", "3", "4", "5", "6", "8", NoField}

\* TLS records: handshake (22), alert (21), application data (23) or no
\* content type; ServerHello (2), ClientHello (1) or no handshake type; the
\* version and the cipher suite each present or not.
TlsPacket(len, tls) ==
  [TcpPacket(Num(1), len, BA, [NoTcp EXCEPT !.flags = {"ACK"}]) EXCEPT
     !.layers = @ \cup {"TLS"}, !.highest_layer = "TLS", !.tls = tls]

TlsRecords ==
  {[record_content_type |-> c, handshake_type |-> h,
    handshake_version |-> v, handshake_ciphersuite |-> k] :
     c \in {"22", "21", "23", NoField}, h \in {"2"},
     v \in {"0x0303", NoField}, k \in {"0x1301", NoField}}
  \cup
  {[record_content_type |-> c, handshake_type |-> h,
    handshake_version |-> "0x0303", handshake_ciphersuite |-> "0x1301"] :
     c \in {"22", "21", "23", NoField}, h \in {"1", NoField}}

LayerPackets ==
     {TcpPacket(Num(1), Num(3), AB,
                [flags |-> f, analysis_retransmission |-> r, analysis_acks_frame |-> a]) :
        f \in TcpFlagSets, r \in BOOLEAN, a \in BOOLEAN}
  \cup {TcpPacket(Num(1), Junk, AB,
                  [flags |-> {"SYN", "RST"}, analysis_retransmission |-> TRUE,
                   analysis_acks_frame |-> FALSE])}
  \cup {HttpPacket(Num(3), code) : code \in HttpCodes}
  \cup {HttpPacket(Junk, <<"4", "0", "4">>)}
  \cup {DhcpPacket(Num(2), "DHCP", ip, type) : ip \in {NoIp, BA}, type \in DhcpTypes}
  \cup {DhcpPacket(Num(2), "BOOTP", BA, "1"), DhcpPacket(Junk, "DHCP", BA, "2")}
  \cup {TlsPacket(Num(3), tls) : tls \in TlsRecords}
  \cup {TlsPacket(Junk, [record_content_type |-> "22", handshake_type |-> "2",
                         handshake_version |-> "0x0303", handshake_ciphersuite |-> "0x1301"])}

\* passes of at most MaxStream records over that traffic
ProcessLayerRecord == \E p \in LayerPackets : delivered < MaxStream /\ Deliver(p)

NextLayers == ProcessLayerRecord

SpecLayers == Init /\ [][NextLayers]_vars

\* A pass over DNS traffic: queries and responses of two transaction ids at
\* every time, well formed and not, and one record without DNS.
DnsIds == {"42", "7"}

DnsPackets ==
     {DnsPacket(ts, Num(2), Query(id)) : ts \in Stamps, id \in DnsIds}
  \cup {DnsPacket(ts, Num(2), Response(id)) : ts \in Stamps, id \in DnsIds}
  \cup {DnsPacket(Num(0), Junk, Query("42")),
        DnsPacket(Num(1), Junk, [Query("42") EXCEPT !.qry_name = "example.org", !.qry_type = "1"]),
        DnsPacket(Num(1), Num(2), [Query("42") EXCEPT !.qry_name = "example.org"]),
        DnsPacket(Num(2), Num(2), [Response("42") EXCEPT !.qry_name = "example.org"]),
        DnsPacket(Num(2), Num(2), [Response("7") EXCEPT !.qry_name = "example.org", !.qry_type = "1"]),
        UdpPacket(Num(1), Num(2), AB, Ports)}

ProcessDnsRecord == \E p \in DnsPackets : Deliver(p)

NextDns == ProcessDnsRecord

SpecDns == Init /\ [][NextDns]_vars

\* ------------------------------------------------------- update_baseline
\* The snapshot handed to update_baseline is the one the pass ended with.
BaselinePackets ==
  {TcpPacket(Num(1), Num(3), AB, [NoTcp EXCEPT !.flags = {"SYN"}]),
   TcpPacket(Num(2), Num(3), AB, [NoTcp EXCEPT !.flags = {"RST"}, !.analysis_retransmission = TRUE]),
   UdpPacket(Num(0), Num(2), AB, Ports),
   UdpPacket(Num(2), Num(2), AB, Ports),
   [TcpPacket(Num(1), Num(3), BA, [NoTcp EXCEPT !.flags = {"ACK"}]) EXCEPT
      !.layers = @ \cup {"HTTP"}, !.highest_layer = "HTTP",
      !.http = [response_code |-> <<"4", "0", "4">>]],
   TcpPacket(Num(1), Junk, AB, [NoTcp EXCEPT !.flags = {"RST"}, !.analysis_retransmission = TRUE])}

RECURSIVE Streams(_, _)
Streams(U, n) ==
  IF n = 0 THEN {<<>>}
  ELSE LET shorter == Streams(U, n - 1)
       IN shorter \cup {Append(q, p) : q \in {x \in shorter : Len(x) = n - 1}, p \in U}

\* analyze_pcap, lines 246 and 263-264: update_stats over the records in order
RECURSIVE Pass(_, _)
Pass(st, records) ==
  IF records = <<>> THEN Ok(st, <<>>)
  ELSE LET n == Len(records)
       IN update_stats(Pass(st, SubSeq(records, 1, n - 1)).st, records[n])

OldBucket == [k \in {"tcp_retransmission_rate", "tcp_resets", "packet_loss"} |-> Rat(1, 2)]
EmptyBucket == EmptyDict
WithKeys(ks, bucket) == Object([k \in ks |-> bucket])

\* what the baseline file may hold when a run starts
ExistingFiles ==
  {NoFile, <<Garbage>>, <<OpenBrace>>, <<ArrayText>>, <<NullText>>,
   Serialize(Object(EmptyDict)),
   Serialize(WithKeys({"workday", "weekend"}, EmptyBucket)),
   Serialize(WithKeys({"workday", "weekend"}, OldBucket)),
   Serialize(WithKeys({"weekend"}, OldBucket))}

InitBaseline ==
  /\ \E now \in 0 .. MaxClock : \E records \in Streams(BaselinePackets, MaxStream) :
       LET r == Pass(initialize_stats(now), records)
       IN stats = r.st /\ log = r.log /\ all_packets = records
  /\ escaped = "none"
  /\ phase = "finished"
  /\ \E old \in ExistingFiles :
       IF old = NoFile
       THEN dir = [p \in Paths |-> 0] /\ inodes = <<>>
       ELSE dir = [p \in Paths |-> IF p = baseline_path THEN 1 ELSE 0] /\ inodes = <<old>>
  /\ upd = [self \in Procs |-> IdleCall]
  /\ calls = 0
  /\ InitConfig

\* The call ends: `except Exception` of update_baseline catches the error,
\* logs it and returns False (lines 375-377); `error` is what was caught and
\* logged, `raised` what propagates to the caller, which stays "none".
Fail(self, err) ==
  upd' = [upd EXCEPT ![self].pc = "done", ![self].result = "False", ![self].error = err]

\* lines 349-353: the empty-capture guard and the day type
UpdateBegin(self) ==
  /\ phase = "finished"
  /\ upd[self].pc = "idle"
  /\ calls < MaxUpdates
  /\ calls' = calls + 1
  /\ IF stats.packet_count = 0
     THEN upd' = [upd EXCEPT ![self] =
                    [IdleCall EXCEPT !.pc = "done", !.result = "False",
                                     !.error = "BaselineError: no packets",
                                     !.before = Content(dir, inodes, baseline_path)]]
     ELSE \E weekday \in 0 .. 6 :
            upd' = [upd EXCEPT ![self] =
                      [IdleCall EXCEPT !.pc = "load",
                                       !.baseline_type = get_baseline_type(weekday),
                                       !.before = Content(dir, inodes, baseline_path)]]
  /\ UNCHANGED <<dir, inodes>>
  /\ UNCHANGED <<passvars, cfgvars>>

\* load_baseline (lines 320-328), the default of line 354 and the bucket
\* assignment of lines 357-369
Load(self) ==
  /\ upd[self].pc = "load"
  /\ \E ioerror \in BOOLEAN :
       LET loaded == load_baseline(dir, inodes, ioerror)
           data   == OrDefault(loaded.val)
       IN IF loaded.exc /= "none" THEN Fail(self, loaded.exc)
          ELSE IF data.type /= "object" THEN Fail(self, "TypeError")
          ELSE upd' = [upd EXCEPT ![self].pc = "mkdir",
                         ![self].baseline_data =
                            AssignBucket(data, upd[self].baseline_type, Metrics(stats))]
  /\ UNCHANGED <<dir, inodes, calls>>
  /\ UNCHANGED <<passvars, cfgvars>>

\* save_baseline, line 334: parent.mkdir(parents=True, exist_ok=True)
Mkdir(self) ==
  /\ upd[self].pc = "mkdir"
  /\ \/ upd' = [upd EXCEPT ![self].pc = "open"]
     \/ Fail(self, "BaselineError: OSError saving")
  /\ UNCHANGED <<dir, inodes, calls>>
  /\ UNCHANGED <<passvars, cfgvars>>

\* save_baseline, lines 337-338: open(temp_path, 'w') creates or truncates
OpenTemp(self) ==
  /\ upd[self].pc = "open"
  /\ \/ /\ Fail(self, "BaselineError: IOError saving")
        /\ UNCHANGED <<dir, inodes>>
     \/ IF dir[temp_path] = 0
        THEN /\ inodes' = Append(inodes, <<>>)
             /\ dir' = [dir EXCEPT ![temp_path] = Len(inodes) + 1]
             /\ upd' = [upd EXCEPT ![self].pc = "write", ![self].fd = Len(inodes) + 1,
                                   ![self].pos = 0]
        ELSE /\ inodes' = [inodes EXCEPT ![dir[temp_path]] = <<>>]
             /\ dir' = dir
             /\ upd' = [upd EXCEPT ![self].pc = "write", ![self].fd = dir[temp_path],
                                   ![self].pos = 0]
  /\ UNCHANGED calls
  /\ UNCHANGED <<passvars, cfgvars>>

\* write(2) at an offset of the file: overwrite, extend, or leave a hole
Hole == Tok("\\0", "", EmptyDict)
WriteAt(text, pos, tok) ==
  [i \in 1 .. Max(Len(text), pos + 1) |->
     IF i = pos + 1 THEN tok ELSE IF i <= Len(text) THEN text[i] ELSE Hole]

\* save_baseline, line 339: json.dump writes the text chunk by chunk
WriteChunk(self) ==
  /\ upd[self].pc = "write"
  /\ LET text == Serialize(upd[self].baseline_data)
         pos  == upd[self].pos
     IN /\ pos < Len(text)
        /\ \/ /\ inodes' = [inodes EXCEPT ![upd[self].fd] = WriteAt(@, pos, text[pos + 1])]
              /\ upd' = [upd EXCEPT ![self].pos = pos + 1]
           \/ /\ Fail(self, "BaselineError: IOError saving")
              /\ UNCHANGED inodes
  /\ UNCHANGED <<dir, calls>>
  /\ UNCHANGED <<passvars, cfgvars>>

\* save_baseline, line 338: leaving the with block flushes and closes the file
CloseTemp(self) ==
  /\ upd[self].pc = "write"
  /\ upd[self].pos = Len(Serialize(upd[self].baseline_data))
  /\ \/ upd' = [upd EXCEPT ![self].pc = "rename"]
     \/ Fail(self, "BaselineError: IOError saving")
  /\ UNCHANGED <<dir, inodes, calls>>
  /\ UNCHANGED <<passvars, cfgvars>>

\* the replace issued inside the with block, before json.dump has written
RenameBeforeDump(self) ==
  /\ upd[self].pc = "write"
  /\ upd[self].pos = 0
  /\ dir[temp_path] /= 0
  /\ dir' = [dir EXCEPT ![baseline_path] = dir[temp_path], ![temp_path] = 0]
  /\ UNCHANGED <<upd, inodes, calls>>
  /\ UNCHANGED <<passvars, cfgvars>>

\* save_baseline, line 342: temp_path.replace(self.baseline_path)
Rename(self) ==
  /\ upd[self].pc = "rename"
  /\ \/ /\ Fail(self, "BaselineError: OSError saving")
        /\ UNCHANGED dir
     \/ /\ dir[temp_path] /= 0
        /\ dir' = IF temp_path = baseline_path THEN dir
                  ELSE [dir EXCEPT ![baseline_path] = dir[temp_path], ![temp_path] = 0]
        /\ upd' = [upd EXCEPT ![self].pc = "done", ![self].result = "True"]
  /\ UNCHANGED <<inodes, calls>>
  /\ UNCHANGED <<passvars, cfgvars>>

\* update_baseline has returned; the process may call it again
Return(self) ==
  /\ upd[self].pc = "done"
  /\ upd' = [upd EXCEPT ![self] = IdleCall]
  /\ UNCHANGED <<dir, inodes, calls>>
  /\ UNCHANGED <<passvars, cfgvars>>

UpdateStep(self) ==
  \/ UpdateBegin(self) \/ Load(self) \/ Mkdir(self) \/ OpenTemp(self)
  \/ WriteChunk(self) \/ CloseTemp(self) \/ Rename(self) \/ Return(self)

\* one process updates the baseline, any number of times
NextBaseline == UpdateStep(1)

SpecBaseline == InitBaseline /\ [][NextBaseline]_vars

\* save_baseline called on its own, as in test_save_and_load_baseline: the
\* caller hands over a baseline record (day type -> metric -> number) and the
\* destination holds any of the files above. The call record starts at the
\* first statement of save_baseline with the record as its argument.
TestBaseline ==
  Object([k \in {"workday", "weekend"} |->
            [m \in {"tcp_retransmission_rate"} |->
               IF k = "workday" THEN Rat(1, 20) ELSE Rat(1, 50)]])

BaselineRecords ==
  {Object(EmptyDict), TestBaseline,
   WithKeys({"workday", "weekend"}, OldBucket),
   WithKeys({"workday"}, EmptyBucket),
   Object([k \in {"weekend"} |-> Metrics(initialize_stats(0))])}

InitSave ==
  /\ \E now \in 0 .. MaxClock : stats = initialize_stats(now)
  /\ all_packets = <<>>
  /\ log = <<>>
  /\ escaped = "none"
  /\ phase = "finished"
  /\ \E old \in ExistingFiles :
       /\ IF old = NoFile
          THEN dir = [p \in Paths |-> 0] /\ inodes = <<>>
          ELSE dir = [p \in Paths |-> IF p = baseline_path THEN 1 ELSE 0] /\ inodes = <<old>>
       /\ \E b \in BaselineRecords :
            upd = [self \in Procs |->
                     IF self = 1
                     THEN [IdleCall EXCEPT !.pc = "mkdir", !.baseline_data = b, !.before = old]
                     ELSE IdleCall]
  /\ calls = 0
  /\ InitConfig

NextSave == Mkdir(1) \/ OpenTemp(1) \/ WriteChunk(1) \/ CloseTemp(1) \/ Rename(1)

SpecSave == InitSave /\ [][NextSave]_vars

\* Two processes (two runs of the CLI in the same directory) update the same
\* baseline file; nothing in update_baseline or save_baseline takes a lock,
\* so their steps interleave freely. Each run analysed a one-record capture.
InitRace ==
  /\ InitBaseline
  /\ Len(all_packets) = 1
  /\ stats.start_time = 0

NextRace == UpdateStep(1) \/ UpdateStep(2)

SpecRace == InitRace /\ [][NextRace]_vars

\* ---------------------------------------------------- configuration calls
\* The values callers pass: of every type, inside and outside the ranges and
\* choices of the schema (the tests pass -0.1, 1.5, "invalid", "INVALID").
ConfigValues ==
  {PyFloat(9), PyFloat(150), PyInt(0), PyBool(TRUE), PyStr("DEBUG"), PyStr("INVALID")}

ConfigKeys == DOMAIN DEFAULT_CONFIG

ConfigDicts ==
  UNION {[ks -> ConfigValues] :
           ks \in {x \in SUBSET ConfigKeys : Cardinality(x) <= MaxKeys}}

\* A caller invokes set(key, value) or update(config_dict).
CallSet ==
  /\ config_call = NoCall
  /\ \E key \in ConfigKeys, value \in ConfigValues :
       config_call' = [op |-> "set", arg |-> (key :> value), raised |-> "none",
                       pc |-> "called"]
  /\ UNCHANGED <<config, passvars, fsvars>>

CallUpdate ==
  /\ config_call = NoCall
  /\ \E config_dict \in ConfigDicts :
       config_call' = [op |-> "update", arg |-> config_dict, raised |-> "none",
                       pc |-> "called"]
  /\ UNCHANGED <<config, passvars, fsvars>>

\* the body of set, lines 229-234
SetValue ==
  /\ config_call.pc = "called" /\ config_call.op = "set"
  /\ LET key == CHOOSE k \in DOMAIN config_call.arg : TRUE
         r   == set(config, key, config_call.arg[key])
     IN /\ config' = r.config
        /\ config_call' = [config_call EXCEPT !.raised = r.raised, !.pc = "returned"]
  /\ UNCHANGED <<passvars, fsvars>>

\* the body of update, lines 238-249
UpdateValues ==
  /\ config_call.pc = "called" /\ config_call.op = "update"
  /\ LET r == update(config, config_call.arg)
     IN /\ config' = r.config
        /\ config_call' = [config_call EXCEPT !.raised = r.raised, !.pc = "returned"]
  /\ UNCHANGED <<passvars, fsvars>>

\* the caller has seen the outcome and may call again
ConfigReturn ==
  /\ config_call.pc = "returned"
  /\ config_call' = NoCall
  /\ UNCHANGED <<config, passvars, fsvars>>

NextConfig == CallSet \/ CallUpdate \/ SetValue \/ UpdateValues \/ ConfigReturn

SpecConfig == Init /\ [][NextConfig]_vars

\* ------------------------------------------------------------------ claims
\* A step of the record loop: one more record has been handed to update_stats.
RecordStep == delivered' = delivered + 1

\* The record-level handler of update_stats ran for the last record.
Threw(lg) == lg /= <<>> /\ lg[Len(lg)] = "Error processing packet"

TimeOf(p) == ParseNumber(p.sniff_timestamp).val
HasTime(p) == ParseNumber(p.sniff_timestamp).exc = "none"
HasIpPair(p) == "IP" \in p.layers /\ ~Absent(p.ip.src) /\ ~Absent(p.ip.dst)
Count(d, k) == IF k \in DOMAIN d THEN d[k] ELSE 0
ProtocolOf(p) == IF p.transport_layer /= NoneVal THEN p.transport_layer ELSE p.highest_layer

\* C1: after update_stats has been applied to every record of a finite
\* stream, well formed or not, starting from initialize_stats, the counts of
\* the protocol distribution sum to packet_count.
C1_ProtocolSum == SumValues(stats.protocols) = stats.packet_count

\* C2: when evaluating a record throws, update_stats increases
\* malformed_packets by exactly 1 and every other counter, tally and sample
\* list of the snapshot keeps its value.
C2_MalformedIsolation ==
  [][(RecordStep /\ Threw(log'))
       => stats' = [stats EXCEPT !.malformed_packets = @ + 1]]_vars

\* C3: update_stats never raises to its caller: whatever fault occurs in a
\* record the call returns normally, the record loop is never ended by it,
\* every record delivered, also after a faulty one, has been counted, and a
\* record evaluated without a fault has its protocol and IP rules applied
\* whatever came before it.
C3_NeverRaises ==
  /\ escaped = "none"
  /\ phase = "processing"
  /\ stats.packet_count = delivered
  /\ (delivered > 0 /\ log = <<>>) =>
        /\ Count(stats.protocols, ProtocolOf(packet)) >= 1
        /\ HasIpPair(packet) =>
              Count(stats.conversations, <<packet.ip.src, packet.ip.dst>>) >= 1

\* a record with an unparseable timestamp was absorbed, and a later
\* well-formed record had its IP rule applied
C3_Witness ==
  /\ delivered >= 2
  /\ all_packets[1].sniff_timestamp = Junk
  /\ stats.malformed_packets >= 1
  /\ HasIpPair(packet) /\ ~Threw(log)
  /\ Count(stats.conversations, <<packet.ip.src, packet.ip.dst>>) >= 1

\* C4: a fault raised by one rule of a record does not skip the updates the
\* other rules make for that record: the protocol tally gains 1 for every
\* record, the IP tallies gain their counts for every record with a complete
\* IP sub-record, and the DHCP discover counter gains 1 for every discover,
\* whether or not another rule of the record faulted.
C4_UnrelatedRulesApplied ==
  [][RecordStep =>
       LET p == packet' IN
       /\ SumValues(stats'.protocols) = SumValues(stats.protocols) + 1
       /\ HasIpPair(p) =>
             Count(stats'.conversations, <<p.ip.src, p.ip.dst>>)
               = Count(stats.conversations, <<p.ip.src, p.ip.dst>>) + 1
       /\ ("DHCP" \in p.layers /\ p.has_dhcp /\ p.dhcp.option_dhcp_message_type = "1")
             => stats'.dhcp_discover = stats.dhcp_discover + 1]_vars

\* C5: whenever evaluating a record hits a missing or invalid field, at the
\* top level or inside a layer sub-record (each such fault is logged),
\* malformed_packets is increased for that record.
C5_EveryFaultCounted ==
  [][(RecordStep /\ log' /= <<>>)
       => stats'.malformed_packets = stats.malformed_packets + 1]_vars

\* C6: in every state reached by processing a non-empty stream,
\* start_timestamp <= end_timestamp.
C6_TimeRangeOrdered ==
  stats.packet_count > 0 => stats.start_timestamp <= stats.end_timestamp

IsDns(p)      == "DNS" \in p.layers
IsQuery(p)    == IsDns(p) /\ p.dns.flags_response = "0" /\ ~Absent(p.dns.id)
IsResponse(p) == IsDns(p) /\ p.dns.flags_response = "1" /\ ~Absent(p.dns.id)

\* The response handed over in this step got its sample from query q.
Matched(q, r) ==
  /\ stats'.dns_response_times = Append(stats.dns_response_times, TimeOf(r) - TimeOf(q))
  /\ r.dns.id \notin DOMAIN stats'.pending_dns_queries

\* C7: a DNS query with id X processed at time t1 and a DNS response with id
\* X processed later at time t2, with no other query with id X in between,
\* appends exactly the sample t2 - t1 to dns_response_times and removes X
\* from the pending table.
C7_RoundTrip ==
  [][RecordStep =>
       \A i \in 1 .. delivered :
         LET q == all_packets[i]
             r == packet'
         IN (/\ IsQuery(q) /\ HasTime(q)
             /\ IsResponse(r) /\ HasTime(r)
             /\ r.dns.id = q.dns.id
             /\ \A k \in (i + 1) .. delivered :
                  ~(IsQuery(all_packets[k]) /\ all_packets[k].dns.id = q.dns.id))
            => Matched(q, r)]_vars

\* The flow key of a record with UDP and IP whose key fields are all there.
HasFlowKey(p) ==
  /\ "UDP" \in p.layers /\ HasIpPair(p)
  /\ ~Absent(p.udp.srcport) /\ ~Absent(p.udp.dstport)
FlowKey(p) == <<p.ip.src, p.ip.dst, p.udp.srcport, p.udp.dstport>>

\* C8: for every record with both UDP and IP, if its flow key already has a
\* last-seen timestamp then ts - last-seen is appended to udp_jitter, else
\* udp_jitter is unchanged, and in all cases the last-seen timestamp of the
\* key becomes ts.
C8_UdpJitter ==
  [][RecordStep =>
       LET p == packet' IN
       (HasFlowKey(p) /\ HasTime(p)) =>
         /\ stats'.udp_jitter =
              IF FlowKey(p) \in DOMAIN stats.prev_udp_time
              THEN Append(stats.udp_jitter, TimeOf(p) - stats.prev_udp_time[FlowKey(p)])
              ELSE stats.udp_jitter
         /\ FlowKey(p) \in DOMAIN stats'.prev_udp_time
         /\ stats'.prev_udp_time[FlowKey(p)] = TimeOf(p)]_vars

Dest == Content(dir, inodes, baseline_path)
Temp == Content(dir, inodes, temp_path)

\* C9: a failed update never changes the persisted baseline: however
\* update_baseline fails (empty capture, unparseable file, failure to open,
\* write or close the temporary file, rename failure), the content of the
\* destination after the call is its content before the call; and the rename
\* is reached only with the temporary file written completely.
C9_FailedUpdateKeepsFile ==
  \A self \in Procs :
    /\ (upd[self].pc = "done" /\ upd[self].result = "False") => Dest = upd[self].before
    /\ upd[self].pc = "rename" => Temp = Serialize(upd[self].baseline_data)

\* the write failed after part of the new text had reached the temporary
\* file, while the destination held a valid baseline
C9_Witness ==
  /\ upd[1].pc = "done" /\ upd[1].result = "False"
  /\ upd[1].error = "BaselineError: IOError saving"
  /\ upd[1].pos >= 1
  /\ Temp /= NoFile /\ Parse(Temp).exc /= "none"
  /\ Parse(Dest).exc = "none"

\* C10: at every step of one update, a reader of the destination path sees
\* either the complete content the file had before the call or, once the
\* rename has been done, the complete new record; never a partial text.
C10_AtomicSwap ==
  upd[1].pc /= "idle" =>
    \/ Dest = upd[1].before
    \/ /\ upd[1].pc = "done" /\ upd[1].result = "True"
       /\ Dest = Serialize(upd[1].baseline_data)

\* in the middle of the write: the temporary file holds a partial text and
\* the destination still holds the previous valid baseline
C10_Witness ==
  /\ upd[1].pc = "write"
  /\ upd[1].pos >= 1 /\ upd[1].pos < Len(Serialize(upd[1].baseline_data))
  /\ Parse(Temp).exc /= "none"
  /\ Dest = upd[1].before /\ Parse(Dest).exc = "none"
  /\ Dest /= Serialize(upd[1].baseline_data)

\* C11: when two processes run update_baseline on the same path, with any
\* interleaving of their steps, every change of what the destination path
\* holds (a rename, and whatever happens to the renamed file afterwards)
\* leaves there one complete record written by one of the running calls,
\* never a truncated or mixed text.
C11_NoPartialStateUnderRace ==
  [][Dest' /= Dest =>
       \E self \in Procs :
          /\ upd'[self].pc \in {"rename", "done"}
          /\ upd'[self].baseline_data.type = "object"
          /\ Dest' = Serialize(upd'[self].baseline_data)]_vars

\* The call of process 1 has returned True.
Succeeded == upd[1].pc = "done" /\ upd[1].result = "True"
Before == Parse(upd[1].before)
After == Parse(Dest)
OtherType(t) == IF t = "workday" THEN "weekend" ELSE "workday"

\* C12: a successful update replaces only the bucket of the current day
\* type: every other bucket the file held before the call has the same value
\* in the file after it.
C12_OtherBucketUnchanged ==
  (Succeeded /\ Before.exc = "none" /\ Before.val.type = "object") =>
     /\ After.exc = "none" /\ After.val.type = "object"
     /\ \A k \in DOMAIN Before.val.members \ {upd[1].baseline_type} :
          /\ k \in DOMAIN After.val.members
          /\ After.val.members[k] = Before.val.members[k]

\* a workday update over a file whose weekend bucket held values, and the
\* converse
C12_Witness ==
  /\ Succeeded
  /\ Before.exc = "none" /\ Before.val.type = "object"
  /\ OtherType(upd[1].baseline_type) \in DOMAIN Before.val.members
  /\ Before.val.members[OtherType(upd[1].baseline_type)] = OldBucket
  /\ After.val.members[upd[1].baseline_type] = Metrics(stats)
  /\ After.val.members[upd[1].baseline_type] /= OldBucket

\* C13: update_baseline called with a snapshot whose packet_count is 0 fails
\* with the empty-capture error (a BaselineError reaches the caller) and does
\* not modify the persisted file.
C13_EmptyCaptureGuard ==
  (upd[1].pc = "done" /\ stats.packet_count = 0) =>
     /\ upd[1].raised = "BaselineError: no packets"
     /\ Dest = upd[1].before

\* The error kind of the contract for a fault update_baseline met.
ErrorKind(err) ==
  CASE err = "BaselineError: no packets" -> "EmptyCapture"
    [] err \in {"BaselineError: JSONDecodeError loading", "TypeError"} -> "StorageCorruption"
    [] OTHER -> "StorageIO"

\* C14: update_baseline surfaces every baseline fault to its caller as a
\* typed, distinguishable error: EmptyCapture when packet_count is 0,
\* StorageCorruption when the persisted file cannot be parsed, StorageIO when
\* the write or the rename fails.
C14_FaultsSurfacedTyped ==
  (upd[1].pc = "done" /\ upd[1].error /= "none") =>
     /\ upd[1].raised /= "none"
     /\ ErrorKind(upd[1].raised) = ErrorKind(upd[1].error)

Returned == phase = "finished"

\* C16: the snapshot returned at the end of an analysis contains neither the
\* UDP last-seen table (prev_udp_time) nor the pending DNS query table
\* (pending_dns_queries).
C16_FinalizeStripsTables ==
  Returned =>
     /\ "prev_udp_time" \notin DOMAIN stats
     /\ "pending_dns_queries" \notin DOMAIN stats

\* The step in which analyze_pcap cleans the snapshot up and returns it.
FinalizeStep == phase = "processing" /\ phase' = "finished"
Tables == {"prev_udp_time", "pending_dns_queries"}

\* finalize keeps every counter, tally and sample list: the conversations
\* tally keeps its counts under the joined keys
KeepsCounters ==
  /\ \A k \in DOMAIN stats \ (Tables \cup {"conversations"}) :
        k \in DOMAIN stats' /\ stats'[k] = stats[k]
  /\ "conversations" \in DOMAIN stats'
  /\ Cardinality(DOMAIN stats'.conversations) = Cardinality(DOMAIN stats.conversations)
  /\ \A k \in DOMAIN stats.conversations :
        /\ JoinKey(k) \in DOMAIN stats'.conversations
        /\ stats'.conversations[JoinKey(k)] = stats.conversations[k]

\* C17: for every n >= 0, finalizing the snapshot reached after the first n
\* records of any stream completes without error, keeps every counter, tally
\* and sample list unchanged, and yields a snapshot in which the protocol
\* counts sum to packet_count and, when packet_count > 0,
\* start_timestamp <= end_timestamp.
C17_FinalizeAnyPoint ==
  [][FinalizeStep =>
       /\ escaped' = "none"
       /\ KeepsCounters
       /\ SumValues(stats'.protocols) = stats'.packet_count
       /\ stats'.packet_count > 0 => stats'.start_timestamp <= stats'.end_timestamp]_vars

\* C18: once an update has succeeded, the persisted baseline is an object
\* with both keys workday and weekend (possibly empty) and no other
\* top-level key, whatever parseable content the file held before the call.
C18_BothBucketKeys ==
  Succeeded =>
     /\ After.exc = "none" /\ After.val.type = "object"
     /\ DOMAIN After.val.members = {"workday", "weekend"}

MetricNames ==
  {"tcp_retransmission_rate", "tcp_resets", "avg_tcp_handshake_delay",
   "avg_udp_jitter", "http_error_rate"}

\* the bucket of the current day type in the file after the call, and in
\* the file before it
Stored == After.val.members[upd[1].baseline_type]
HadBucket ==
  /\ Before.exc = "none" /\ Before.val.type = "object"
  /\ upd[1].baseline_type \in DOMAIN Before.val.members

\* C19: a successful update replaces the bucket of the current day type
\* wholesale: afterwards it consists of exactly the five metrics computed
\* from the given snapshot, and no field of the previous bucket survives.
C19_BucketReplacedWholesale ==
  Succeeded =>
     /\ After.exc = "none" /\ After.val.type = "object"
     /\ upd[1].baseline_type \in DOMAIN After.val.members
     /\ DOMAIN Stored = MetricNames
     /\ Stored = Metrics(stats)

\* the bucket held other values and the legacy field packet_loss before
C19_Witness ==
  /\ Succeeded /\ HadBucket
  /\ Before.val.members[upd[1].baseline_type] = OldBucket
  /\ "packet_loss" \notin DOMAIN Stored
  /\ Stored["tcp_resets"] /= OldBucket["tcp_resets"]

\* the quotient q (a fraction n/d) equals num/den
IsQuotient(q, num, den) == q.d > 0 /\ q.n * den = num * q.d
\* the quotient q is the arithmetic mean of the list, 0 when it is empty
IsMean(q, list) ==
  IF list = <<>> THEN q.d > 0 /\ q.n = 0 ELSE IsQuotient(q, SeqSum(list), Len(list))

\* C20: the metrics stored by update_baseline equal these formulas on the
\* snapshot: retransmission rate = retransmissions / packet_count; reset
\* count = resets; average SYN delay and average UDP jitter = arithmetic mean
\* of the sample list, 0 when it is empty; HTTP error rate = (sum of all
\* http_errors counts) / packet_count.
C20_MetricFormulas ==
  Succeeded =>
     /\ IsQuotient(Stored["tcp_retransmission_rate"], stats.retransmissions, stats.packet_count)
     /\ IsQuotient(Stored["tcp_resets"], stats.resets, 1)
     /\ IsMean(Stored["avg_tcp_handshake_delay"], stats.tcp_syn_delays)
     /\ IsMean(Stored["avg_udp_jitter"], stats.udp_jitter)
     /\ IsQuotient(Stored["http_error_rate"], SumValues(stats.http_errors), stats.packet_count)

\* one of two records was a retransmission carrying RST: the rate is 1/2
C20_Witness ==
  /\ Succeeded
  /\ stats.packet_count = 2 /\ stats.retransmissions = 1 /\ stats.resets = 1
  /\ Stored["tcp_retransmission_rate"] = [n |-> 1, d |-> 2]
  /\ Stored["tcp_resets"] = [n |-> 1, d |-> 1]

\* The record handed to update_stats in this step has been processed before.
Replayed == RecordStep /\ \E i \in 1 .. delivered : all_packets[i] = packet'
LengthOf(p) == ParseNumber(p.length).val
HasLength(p) == ParseNumber(p.length).exc = "none"

\* C21: processing is not idempotent: processing a record a second time
\* increments the counters again, packet_count by 1, total_bytes by the
\* length, the protocol tally by 1 and, for a record with an IP pair, the two
\* talkers and the conversation by 1; nothing is deduplicated.
C21_ReplayCountsAgain ==
  [][Replayed =>
       LET p == packet'
       IN /\ stats'.packet_count = stats.packet_count + 1
          /\ HasLength(p) => stats'.total_bytes = stats.total_bytes + LengthOf(p)
          /\ Count(stats'.protocols, ProtocolOf(p)) = Count(stats.protocols, ProtocolOf(p)) + 1
          /\ HasIpPair(p) =>
                /\ Count(stats'.top_talkers, p.ip.src) = Count(stats.top_talkers, p.ip.src) + 1
                /\ Count(stats'.top_talkers, p.ip.dst) = Count(stats.top_talkers, p.ip.dst) + 1
                /\ Count(stats'.conversations, <<p.ip.src, p.ip.dst>>)
                     = Count(stats.conversations, <<p.ip.src, p.ip.dst>>) + 1]_vars

\* The snapshot of another pass over the records delivered so far, begun
\* when the wall clock read `now` and handed the records in one batch.
OtherPass(now) == Pass(initialize_stats(now), all_packets).st

\* C22: the statistics are a function of the delivered record sequence only:
\* two passes that start from initialize_stats and process the same records
\* in the same order produce the same snapshot, whatever the wall clock read
\* and however the records were batched.
C22_SnapshotFunctionOfRecords ==
  delivered >= 1 => \A now \in 0 .. MaxClock : stats = OtherPass(now)

\* C22, amended: the two snapshots agree in every field except start_time,
\* which holds the wall-clock reading of initialize_stats.
C22_SameExceptStartTime ==
  delivered >= 1 =>
     \A now \in 0 .. MaxClock :
        /\ stats = [OtherPass(now) EXCEPT !.start_time = stats.start_time]
        /\ OtherPass(now).start_time = now

\* two passes over the same order-sensitive records (two datagrams of one
\* UDP flow) begun at different wall-clock times
C22_Witness ==
  /\ delivered >= 2
  /\ stats.udp_jitter /= <<>>
  /\ \E now \in 0 .. MaxClock :
       /\ now /= stats.start_time
       /\ OtherPass(now) /= stats
       /\ OtherPass(now).udp_jitter = stats.udp_jitter

\* Record k carries DNS with transaction id x.
HasId(k, x) == IsDns(all_packets[k]) /\ all_packets[k].dns.id = x

\* The records i < j delivered so far are two queries with the id of the
\* response r, at times t1 < t2, and no other record with that id has been
\* delivered since the first of them.
Collision(i, j, r) ==
  LET q1 == all_packets[i]
      q2 == all_packets[j]
  IN /\ i < j
     /\ IsQuery(q1) /\ HasTime(q1) /\ IsQuery(q2) /\ HasTime(q2)
     /\ IsResponse(r) /\ HasTime(r)
     /\ q1.dns.id = r.dns.id /\ q2.dns.id = r.dns.id
     /\ TimeOf(q1) < TimeOf(q2)
     /\ \A k \in (i + 1) .. delivered : k /= j => ~HasId(k, r.dns.id)

\* C23: a DNS query overwrites the pending timestamp of its transaction id:
\* after two queries with the same id at t1 < t2 and one response with that
\* id at t3, exactly one sample is appended and it equals t3 - t2.
C23_LastQueryWins ==
  [][RecordStep =>
       \A i, j \in 1 .. delivered :
          Collision(i, j, packet') => Matched(all_packets[j], packet')]_vars

\* C24: correlation entries are never evicted during a pass: a UDP flow key
\* once in the last-seen table is in it after every later record, and a
\* transaction id leaves the pending DNS table only in the step that
\* processes a response with that id.
C24_NoEviction ==
  [][RecordStep =>
       /\ \A k \in DOMAIN stats.prev_udp_time : k \in DOMAIN stats'.prev_udp_time
       /\ \A x \in DOMAIN stats.pending_dns_queries :
             x \notin DOMAIN stats'.pending_dns_queries
               => (IsResponse(packet') /\ packet'.dns.id = x)]_vars

\* two flows are in the last-seen table and a query of an earlier record is
\* still pending after later records, a faulty one among them
C24_Witness ==
  /\ delivered >= 3
  /\ Cardinality(DOMAIN stats.prev_udp_time) >= 2
  /\ IsQuery(all_packets[1])
  /\ all_packets[1].dns.id \in DOMAIN stats.pending_dns_queries
  /\ stats.pending_dns_queries[all_packets[1].dns.id] = TimeOf(all_packets[1])
  /\ ~HasId(2, all_packets[1].dns.id) /\ ~HasId(3, all_packets[1].dns.id)
  /\ stats.malformed_packets >= 1

\* The sum of the byte lengths of the records that carry one.
RECURSIVE TotalLength(_)
TotalLength(records) ==
  IF records = <<>> THEN 0
  ELSE (IF HasLength(Head(records)) THEN LengthOf(Head(records)) ELSE 0)
       + TotalLength(Tail(records))

\* C25: the snapshot is mutated exactly once per incoming record: after n
\* records have been processed, packet_count = n and total_bytes is the sum
\* of the byte lengths of those n records.
C25_CountAndBytes ==
  /\ stats.packet_count = delivered
  /\ stats.total_bytes = TotalLength(all_packets)

\* C26: a record with an IP sub-record adds 1 to top_talkers[src], 1 to
\* top_talkers[dst] and 1 to conversations[(src, dst)], the pair in observed
\* order; a record without an IP sub-record leaves top_talkers and
\* conversations unchanged.
C26_IpTallies ==
  [][RecordStep =>
       LET p == packet'
           src == p.ip.src
           dst == p.ip.dst
       IN /\ HasIpPair(p) =>
               /\ stats'.top_talkers = Tally(Tally(stats.top_talkers, src), dst)
               /\ stats'.conversations = Tally(stats.conversations, <<src, dst>>)
               /\ src /= dst =>
                     Count(stats'.conversations, <<dst, src>>) = Count(stats.conversations, <<dst, src>>)
          /\ "IP" \notin p.layers =>
               /\ stats'.top_talkers = stats.top_talkers
               /\ stats'.conversations = stats.conversations]_vars

\* The DNS record carries a query name and its type.
HasQueryName(p) == IsDns(p) /\ ~Absent(p.dns.qry_name) /\ ~Absent(p.dns.qry_type)

\* C27: every DNS record that carries a query name, query or response,
\* whether or not its id is pending, adds 1 to dns_queries[name] and 1 to
\* dns_record_types[type].
C27_DnsNameTallies ==
  [][RecordStep =>
       LET p == packet'
       IN (HasQueryName(p) /\ (IsQuery(p) \/ IsResponse(p))) =>
            /\ stats'.dns_queries = Tally(stats.dns_queries, p.dns.qry_name)
            /\ stats'.dns_record_types = Tally(stats.dns_record_types, p.dns.qry_type)]_vars

\* C28: for a record with a TCP sub-record, retransmissions increases by 1
\* iff it is marked as a retransmission, resets increases by 1 iff its flags
\* contain RST, and its timestamp is appended to the SYN-delay samples iff
\* its flags contain SYN and it has no ack reference; each effect whatever
\* the other two are.
C28_TcpRule ==
  [][RecordStep =>
       LET p == packet'
       IN ("TCP" \in p.layers /\ HasTime(p)) =>
            /\ stats'.retransmissions =
                  stats.retransmissions + (IF p.tcp.analysis_retransmission THEN 1 ELSE 0)
            /\ stats'.resets = stats.resets + (IF "RST" \in p.tcp.flags THEN 1 ELSE 0)
            /\ stats'.tcp_syn_delays =
                  IF "SYN" \in p.tcp.flags /\ ~p.tcp.analysis_acks_frame
                  THEN Append(stats.tcp_syn_delays, TimeOf(p))
                  ELSE stats.tcp_syn_delays]_vars

\* The record carries HTTP with a response code that starts with 4 or 5.
IsHttpError(p) ==
  /\ "HTTP" \in p.layers
  /\ p.http.response_code /= NoCode
  /\ StartsWith4or5(p.http.response_code)

\* C29: http_errors[code] increases by 1 exactly for records whose HTTP
\* response code starts with 4 or 5; every other record leaves http_errors
\* unchanged, so every key of http_errors starts with 4 or 5.
C29_HttpRule ==
  [][RecordStep =>
       LET p == packet'
       IN /\ stats'.http_errors =
               IF IsHttpError(p) THEN Tally(stats.http_errors, p.http.response_code)
               ELSE stats.http_errors
          /\ \A code \in DOMAIN stats'.http_errors : StartsWith4or5(code)]_vars

DhcpCounters == {"dhcp_discover", "dhcp_offer", "dhcp_request", "dhcp_ack", "dhcp_nak"}

\* the counter of a DHCP message type, "none" for the other types
CounterOf(type) ==
  CASE type = "1" -> "dhcp_discover"
    [] type = "2" -> "dhcp_offer"
    [] type = "3" -> "dhcp_request"
    [] type = "5" -> "dhcp_ack"
    [] type = "6" -> "dhcp_nak"
    [] OTHER -> "none"

\* DHCP or BOOTP is present on the record
HasDhcp(p) == "DHCP" \in p.layers \/ "BOOTP" \in p.layers

\* C30: a record on which DHCP or BOOTP is present and whose message type is
\* 1, 2, 3, 5 or 6 increases exactly one of the discover, offer, request,
\* ack, nak counters respectively; an offer that also has an IP sub-record
\* adds 1 to dhcp_servers[src]; any other message type changes no DHCP
\* counter.
C30_DhcpRule ==
  [][RecordStep =>
       LET p == packet'
           type == p.dhcp.option_dhcp_message_type
       IN HasDhcp(p) =>
            /\ \A c \in DhcpCounters :
                  stats'[c] = stats[c] + (IF c = CounterOf(type) THEN 1 ELSE 0)
            /\ stats'.dhcp_servers =
                  IF type = "2" /\ HasIpPair(p) THEN Tally(stats.dhcp_servers, p.ip.src)
                  ELSE stats.dhcp_servers]_vars

\* C31: for a record with a TLS sub-record, tls_handshakes increases by 1
\* iff the record content type is 22, tls_alerts increases by 1 iff it is
\* 21, and, iff the handshake type is ServerHello (2), the handshake version
\* and the cipher suite are each tallied when present.
C31_TlsRule ==
  [][RecordStep =>
       LET p == packet'
           tls == p.tls
       IN "TLS" \in p.layers =>
            /\ stats'.tls_handshakes =
                  stats.tls_handshakes + (IF tls.record_content_type = "22" THEN 1 ELSE 0)
            /\ stats'.tls_alerts =
                  stats.tls_alerts + (IF tls.record_content_type = "21" THEN 1 ELSE 0)
            /\ stats'.tls_versions =
                  IF tls.handshake_type = "2" /\ ~Absent(tls.handshake_version)
                  THEN Tally(stats.tls_versions, tls.handshake_version)
                  ELSE stats.tls_versions
            /\ stats'.tls_cipher_suites =
                  IF tls.handshake_type = "2" /\ ~Absent(tls.handshake_ciphersuite)
                  THEN Tally(stats.tls_cipher_suites, tls.handshake_ciphersuite)
                  ELSE stats.tls_cipher_suites]_vars

\* C32: each processed record adds 1 to exactly one protocol name: its
\* transport-layer name when a transport layer is present, otherwise the
\* name of its highest decoded layer.
C32_OneProtocolPerRecord ==
  [][RecordStep => stats'.protocols = Tally(stats.protocols, ProtocolOf(packet'))]_vars


\* C33: a stream-level fault (path missing, permission denied, decoder tool
\* missing, decoder crash or any other decoder fault while the records are
\* listed) ends analyze_pcap with a CaptureError and without a snapshot.
C33_StreamFaultsRaiseCaptureError ==
  [][phase = "start" /\ phase' # "processing"
       => phase' = "failed" /\ escaped' = "CaptureError"]_vars


\* datetime.weekday(): 0 is Monday, 6 is Sunday
MondayToFriday == 0 .. 4
SaturdaySunday == {5, 6}

\* C34: the day type depends on the day of the week alone: Monday to Friday
\* gives workday, Saturday and Sunday give weekend, and every call that got
\* past the day-type step holds one of these two values.
C34_DayType ==
  /\ \A weekday \in MondayToFriday : get_baseline_type(weekday) = "workday"
  /\ \A weekday \in SaturdaySunday : get_baseline_type(weekday) = "weekend"
  /\ \A self \in Procs :
       upd[self].pc # "idle" /\ upd[self].error # "BaselineError: no packets"
         => upd[self].baseline_type \in {"workday", "weekend"}

C34_Witness ==
  /\ upd[1].pc = "load"
  /\ upd[1].baseline_type = "weekend"
  /\ calls = 2


\* load_baseline() called once the save has returned
Loaded == load_baseline(dir, inodes, FALSE)

\* C35: after save_baseline(b) has returned, load_baseline() returns a record
\* equal to b, whatever the destination file held before the save.
C35_SaveLoadRoundTrip ==
  Succeeded => Loaded.exc = "none" /\ Loaded.val = upd[1].baseline_data

C35_Witness ==
  /\ Succeeded
  /\ upd[1].before = <<Garbage>>
  /\ upd[1].baseline_data = TestBaseline
  /\ Loaded.val = TestBaseline


\* A value violates the schema of its key: wrong type, below the minimum,
\* above the maximum, or not one of the choices.
Violates(key, value) ==
  /\ key \in DOMAIN VALIDATION_SCHEMA
  /\ LET schema == VALIDATION_SCHEMA[key]
     IN \/ ~isinstance(value, schema.type)
        \/ "min" \in DOMAIN schema /\ value.n < schema.min
        \/ "max" \in DOMAIN schema /\ value.n > schema.max
        \/ "choices" \in DOMAIN schema /\ value.s \notin schema.choices

Invalid(arg) == \E key \in DOMAIN arg : Violates(key, arg[key])

\* C36: a set or update call with any invalid value raises
\* ConfigurationError and changes no configuration key; a call whose values
\* are all valid raises nothing and stores every value it was given, leaving
\* the other keys as they were.
C36_UpdateAllOrNothing ==
  [][config_call.pc = "called" /\ config_call'.pc = "returned" =>
       LET call == config_call'
       IN IF Invalid(call.arg)
          THEN call.raised = "ConfigurationError" /\ config' = config
          ELSE /\ call.raised = "none"
               /\ DOMAIN config' = DOMAIN config \cup DOMAIN call.arg
               /\ \A k \in DOMAIN config' :
                    config'[k] = IF k \in DOMAIN call.arg THEN call.arg[k] ELSE config[k]]_vars

C36_Witness ==
  /\ config_call.op = "update"
  /\ config_call.raised = "ConfigurationError"
  /\ \E k1, k2 \in DOMAIN config_call.arg :
       Violates(k1, config_call.arg[k1]) /\ ~Violates(k2, config_call.arg[k2])
  /\ config["log_level"] = PyStr("DEBUG")
  /\ config["retransmission_threshold"] = PyFloat(9)
  /\ config["worker_threads"] = PyBool(TRUE)


\* The UDP rule was applied to the record: update_stats reached it (the
\* timestamp and the length did not throw) and the record has the four fields
\* of the flow key.
UdpRuleApplied(p) ==
  /\ HasFlowKey(p) /\ HasTime(p)
  /\ p.length = Missing \/ HasLength(p)

UdpRecordsApplied == {i \in 1 .. delivered : UdpRuleApplied(all_packets[i])}

\* C37: at every point of a pass the number of udp_jitter samples is the
\* number of UDP-and-IP records the UDP rule has been applied to minus the
\* number of flow keys in the last-seen table.
C37_JitterSampleCount ==
  Len(stats.udp_jitter)
    = Cardinality(UdpRecordsApplied) - Cardinality(DOMAIN stats.prev_udp_time)

C37_Witness ==
  /\ Len(stats.udp_jitter) = 1
  /\ Cardinality(DOMAIN stats.prev_udp_time) = 2
  /\ delivered = 3


\* The record is a DNS response whose transaction id is not pending.
UnmatchedResponse(p) ==
  /\ IsDns(p) /\ p.dns.flags_response = "1"
  /\ ~Absent(p.dns.id)
  /\ p.dns.id \notin DOMAIN stats.pending_dns_queries

QueriesProcessed(records) == {i \in 1 .. Len(records) : IsQuery(records[i])}

\* C38: a DNS response whose transaction id is not in the pending table
\* appends no sample to dns_response_times and leaves the pending table as
\* it is, and after every record the number of samples is at most the number
\* of DNS queries processed.
C38_UnmatchedResponseIgnored ==
  [][RecordStep =>
       /\ UnmatchedResponse(packet') =>
            /\ stats'.dns_response_times = stats.dns_response_times
            /\ stats'.pending_dns_queries = stats.pending_dns_queries
       /\ Len(stats'.dns_response_times)
            <= Cardinality(QueriesProcessed(all_packets'))]_vars

\* a query, its response, and a second response with the same id
C38_Witness ==
  /\ delivered = 3
  /\ IsQuery(all_packets[1]) /\ IsResponse(all_packets[2]) /\ IsResponse(all_packets[3])
  /\ all_packets[2].dns.id = all_packets[1].dns.id
  /\ all_packets[3].dns.id = all_packets[1].dns.id
  /\ Len(stats.dns_response_times) = 1
  /\ all_packets[1].dns.id \notin DOMAIN stats.pending_dns_queries


\* a quotient between 0 and 1
InUnitInterval(q) == q.d > 0 /\ 0 <= q.n /\ q.n <= q.d

\* C39: in every state of a pass retransmissions, resets, malformed_packets
\* and the sum of the http_errors counts are each at most packet_count, and
\* the retransmission rate and the HTTP error rate a successful
\* update_baseline stores lie between 0 and 1.
C39_CountersBoundedByPacketCount ==
  /\ stats.retransmissions <= stats.packet_count
  /\ stats.resets <= stats.packet_count
  /\ stats.malformed_packets <= stats.packet_count
  /\ SumValues(stats.http_errors) <= stats.packet_count
  /\ Succeeded =>
       /\ InUnitInterval(Stored["tcp_retransmission_rate"])
       /\ InUnitInterval(Stored["http_error_rate"])

\* a retransmission with RST and a record with an unparseable length
C39_Witness ==
  /\ Succeeded
  /\ stats.packet_count = 2 /\ stats.retransmissions = 1 /\ stats.resets = 1
  /\ stats.malformed_packets = 1
  /\ Stored["tcp_retransmission_rate"] = [n |-> 1, d |-> 2]
  /\ Stored["http_error_rate"] = [n |-> 0, d |-> 1]

====
